---- MODULE Spec2Model ----
(***************************************************************************)
(* RedisAccountInfo (b2sdk_redis/redis_account_info.py): the account       *)
(* information and bucket name cache of b2sdk kept in a Redis database     *)
(* that several RedisAccountInfo instances share.                          *)
(*                                                                         *)
(* Physical keys, prefixes, bucket names and bucket ids are TLA+ strings   *)
(* ("%s%s" % (prefix, key) is \o).  A Redis string value is a sequence of  *)
(* one-character strings, so that what the code writes (repr of an int,    *)
(* json.dumps of a dict) and what it reads back (int(), json.loads) are    *)
(* computed character by character.                                        *)
(***************************************************************************)
EXTENDS Integers, Sequences, FiniteSets, TLC

VARIABLES
    db,          \* the Redis keyspace: physical key -> stored value
    key_prefix,  \* self._key_prefix of each RedisAccountInfo instance
    pipeline,    \* the commands queued on each instance's pipeline, not yet executed
    ret,         \* the call that returned last: instance, method, result
    session,     \* history: per prefix, the record of the last _set_auth_data since the last clear
    cache        \* history: per prefix, the name -> id table the completed cache calls amount to

vars == <<db, key_prefix, pipeline, ret, session, cache>>

----------------------------------------------------------------------------
(* Python values *)

None == [py |-> "None"]
PyStr(s) == [py |-> "str", v |-> s]
PyInt(n) == [py |-> "int", v |-> n]
PyDict(d) == [py |-> "dict", v |-> d]

Ok(value) == [outcome |-> "ok", value |-> value]
Raise(exception, message) ==
    [outcome |-> exception, value |-> [py |-> "Exception", msg |-> message]]

----------------------------------------------------------------------------
(* Logical key names, redis_account_info.py:16-38 *)

ACCOUNT_ID_KEY == "account-id"
APPLICATION_KEY_ID_KEY == "application-key-id"
ALLOWED_KEY == "allowed"
API_URL_KEY == "api-url"
APPLICATION_KEY_KEY == "application-key"
AUTH_TOKEN_KEY == "auth-token"
\* BUCKET_MAP_KEY given a name that is the tail of APPLICATION_KEY_ID_KEY
BUCKET_MAP_KEY_key_id == "key-id"

BUCKET_MAP_KEY == "bucket-map"
DOWNLOAD_URL_KEY == "download-url"
MIN_PART_SIZE_KEY == "min-part-size"
REALM_KEY == "realm"

\* ALL_KEYS with REALM_KEY left out of the tuple
ALL_KEYS_without_realm ==
    << ACCOUNT_ID_KEY, APPLICATION_KEY_ID_KEY, ALLOWED_KEY, API_URL_KEY,
       APPLICATION_KEY_KEY, AUTH_TOKEN_KEY, BUCKET_MAP_KEY, DOWNLOAD_URL_KEY,
       MIN_PART_SIZE_KEY >>

ALL_KEYS ==
    << ACCOUNT_ID_KEY, APPLICATION_KEY_ID_KEY, ALLOWED_KEY, API_URL_KEY,
       APPLICATION_KEY_KEY, AUTH_TOKEN_KEY, BUCKET_MAP_KEY, DOWNLOAD_URL_KEY,
       MIN_PART_SIZE_KEY, REALM_KEY >>

----------------------------------------------------------------------------
(* Text conversions made on the way into and out of Redis *)

Digits == <<"0", "1", "2", "3", "4", "5", "6", "7", "8", "9">>

IsDigit(c) == \E d \in 1..Len(Digits) : Digits[d] = c

DigitValue(c) == (CHOOSE d \in 1..Len(Digits) : Digits[d] = c) - 1

IsSpace(c) == c \in {" ", "\t", "\n", "\r"}

RECURSIVE NatToText(_)
NatToText(n) ==
    IF n < 10 THEN <<Digits[n + 1]>>
    ELSE NatToText(n \div 10) \o <<Digits[(n % 10) + 1]>>

\* redis-py encodes an int argument as repr(value) (mset, line 325); with
\* decode_responses=True (line 59) a read gives that text back as str.
redis_encode_int(n) == IF n < 0 THEN <<"-">> \o NatToText(-n) ELSE NatToText(n)

RECURSIVE Strip(_)
Strip(s) ==
    IF s = <<>> THEN s
    ELSE IF IsSpace(Head(s)) THEN Strip(Tail(s))
    ELSE IF IsSpace(s[Len(s)]) THEN Strip(SubSeq(s, 1, Len(s) - 1))
    ELSE s

RECURSIVE DigitsToNat(_, _)
DigitsToNat(s, acc) ==
    IF s = <<>> THEN acc ELSE DigitsToNat(Tail(s), acc * 10 + DigitValue(Head(s)))

\* Python's int(str): surrounding whitespace is dropped, one sign is allowed,
\* what is left must be a non-empty run of digits; ValueError otherwise.
int(text) ==
    LET s == Strip(text)
        signed == s # <<>> /\ Head(s) \in {"+", "-"}
        body == IF signed THEN Tail(s) ELSE s
    IN  IF body # <<>> /\ \A k \in 1..Len(body) : IsDigit(body[k])
        THEN Ok(PyInt(IF signed /\ Head(s) = "-" THEN -DigitsToNat(body, 0)
                      ELSE DigitsToNat(body, 0)))
        ELSE Raise("ValueError", "invalid literal for int()")

----------------------------------------------------------------------------
(* json.dumps / json.loads over None, str, list and dict (a dict is the      *)
(* sequence of its <<key, value>> items in insertion order)                 *)

PyList(l) == [py |-> "list", v |-> l]

RECURSIVE json_escape(_)
json_escape(s) ==
    IF s = <<>> THEN <<>>
    ELSE (IF Head(s) \in {"\"", "\\"} THEN <<"\\", Head(s)>> ELSE <<Head(s)>>)
         \o json_escape(Tail(s))

json_string(s) == <<"\"">> \o json_escape(s) \o <<"\"">>

RECURSIVE json_dumps(_)
json_dumps(o) ==
    LET RECURSIVE items(_)
        items(l) ==
            IF l = <<>> THEN <<>>
            ELSE json_dumps(Head(l))
                 \o (IF Len(l) > 1 THEN <<",", " ">> ELSE <<>>) \o items(Tail(l))
        RECURSIVE members(_)
        members(d) ==
            IF d = <<>> THEN <<>>
            ELSE json_string(Head(d)[1]) \o <<":", " ">> \o json_dumps(Head(d)[2])
                 \o (IF Len(d) > 1 THEN <<",", " ">> ELSE <<>>) \o members(Tail(d))
    IN  CASE o.py = "None" -> <<"n", "u", "l", "l">>
          [] o.py = "str"  -> json_string(o.v)
          [] o.py = "list" -> <<"[">> \o items(o.v) \o <<"]">>
          [] o.py = "dict" -> <<"{">> \o members(o.v) \o <<"}">>

\* The scanner: a parse gives [ok, value, next], next the index after what was read.
Failed == [ok |-> FALSE, value |-> None, next |-> 0]
Parsed(value, next) == [ok |-> TRUE, value |-> value, next |-> next]

RECURSIVE SkipSpace(_, _)
SkipSpace(s, i) == IF i <= Len(s) /\ IsSpace(s[i]) THEN SkipSpace(s, i + 1) ELSE i

At(s, i, c) == i <= Len(s) /\ s[i] = c

\* s[i] is the character after the opening quote
RECURSIVE ScanString(_, _, _)
ScanString(s, i, acc) ==
    IF i > Len(s) THEN Failed
    ELSE IF s[i] = "\"" THEN Parsed(acc, i + 1)
    ELSE IF s[i] = "\\"
         THEN IF i + 1 <= Len(s) /\ s[i + 1] \in {"\"", "\\", "/"}
              THEN ScanString(s, i + 2, Append(acc, s[i + 1]))
              ELSE Failed
    ELSE ScanString(s, i + 1, Append(acc, s[i]))

RECURSIVE ScanValue(_, _), ScanItems(_, _, _), ScanMembers(_, _, _)
ScanValue(s, i0) ==
    LET i == SkipSpace(s, i0)
    IN  IF i > Len(s) THEN Failed
        ELSE IF s[i] = "n"
             THEN IF i + 3 <= Len(s) /\ SubSeq(s, i, i + 3) = <<"n", "u", "l", "l">>
                  THEN Parsed(None, i + 4) ELSE Failed
        ELSE IF s[i] = "\""
             THEN LET r == ScanString(s, i + 1, <<>>)
                  IN  IF r.ok THEN Parsed(PyStr(r.value), r.next) ELSE Failed
        ELSE IF s[i] = "["
             THEN LET j == SkipSpace(s, i + 1)
                  IN  IF At(s, j, "]") THEN Parsed(PyList(<<>>), j + 1)
                      ELSE ScanItems(s, j, <<>>)
        ELSE IF s[i] = "{"
             THEN LET j == SkipSpace(s, i + 1)
                  IN  IF At(s, j, "}") THEN Parsed(PyDict(<<>>), j + 1)
                      ELSE ScanMembers(s, j, <<>>)
        ELSE Failed

ScanItems(s, i, acc) ==
    LET r == ScanValue(s, i)
        j == SkipSpace(s, r.next)
    IN  IF ~r.ok THEN Failed
        ELSE IF At(s, j, ",") THEN ScanItems(s, j + 1, Append(acc, r.value))
        ELSE IF At(s, j, "]") THEN Parsed(PyList(Append(acc, r.value)), j + 1)
        ELSE Failed

\* a later item with a key already seen replaces the earlier value, as in a dict
DictPut(d, k, v) ==
    IF \E n \in 1..Len(d) : d[n][1] = k
    THEN [n \in 1..Len(d) |-> IF d[n][1] = k THEN <<k, v>> ELSE d[n]]
    ELSE Append(d, <<k, v>>)

ScanMembers(s, i0, acc) ==
    LET i == SkipSpace(s, i0)
        k == IF At(s, i, "\"") THEN ScanString(s, i + 1, <<>>) ELSE Failed
        c == SkipSpace(s, k.next)
        r == IF k.ok /\ At(s, c, ":") THEN ScanValue(s, c + 1) ELSE Failed
        j == SkipSpace(s, r.next)
    IN  IF ~r.ok THEN Failed
        ELSE IF At(s, j, ",") THEN ScanMembers(s, j + 1, DictPut(acc, k.value, r.value))
        ELSE IF At(s, j, "}") THEN Parsed(PyDict(DictPut(acc, k.value, r.value)), j + 1)
        ELSE Failed

json_loads(text) ==
    LET r == ScanValue(text, 1)
    IN  IF r.ok /\ SkipSpace(text, r.next) = Len(text) + 1
        THEN Ok(r.value) ELSE Raise("ValueError", "JSONDecodeError")

----------------------------------------------------------------------------
(* The Redis server: every command below is executed as one atomic step *)

StringValue(text) == [type |-> "string", val |-> text]
HashValue(h) == [type |-> "hash", val |-> h]

EmptyHash == [f \in {} |-> ""]

Without(d, keys) == [k \in (DOMAIN d) \ keys |-> d[k]]

\* GET key: the text, None for a missing key, WRONGTYPE for a key holding a hash
redis_get(d, key) ==
    IF key \notin DOMAIN d THEN Ok(None)
    ELSE IF d[key].type = "string" THEN Ok(PyStr(d[key].val))
    ELSE Raise("ResponseError", key)

\* MSET k1 v1 k2 v2 ...: all the keys are set at once; items in the order given
RECURSIVE redis_mset(_, _)
redis_mset(d, items) ==
    IF items = <<>> THEN d
    ELSE redis_mset((Head(items)[1] :> StringValue(Head(items)[2])) @@ d, Tail(items))

\* DEL k1 k2 ...: removes the keys that exist, whatever they hold
redis_delete(d, keys) == Without(d, {keys[n] : n \in 1..Len(keys)})

\* HGET key field
redis_hget(d, key, field) ==
    IF key \notin DOMAIN d THEN Ok(None)
    ELSE IF d[key].type # "hash" THEN Raise("ResponseError", key)
    ELSE IF field \in DOMAIN d[key].val THEN Ok(PyStr(d[key].val[field]))
    ELSE Ok(None)

\* HGETALL key: a missing key reads as the empty mapping
redis_hgetall(d, key) ==
    IF key \notin DOMAIN d THEN Ok(PyDict(EmptyHash))
    ELSE IF d[key].type # "hash" THEN Raise("ResponseError", key)
    ELSE Ok(PyDict(d[key].val))

\* HSET key f1 v1 f2 v2 ...: [db, res], res the number of fields that were
\* added; redis-py refuses an hset without a field
redis_hset(d, key, mapping) ==
    IF key \in DOMAIN d /\ d[key].type # "hash"
    THEN [db |-> d, res |-> Raise("ResponseError", key)]
    ELSE LET old == IF key \in DOMAIN d THEN d[key].val ELSE EmptyHash
         IN  IF DOMAIN mapping = {}
             THEN [db |-> d, res |-> Raise("DataError", "'hset' with no key value pairs")]
             ELSE [db |-> (key :> HashValue(mapping @@ old)) @@ d,
                   res |-> Ok(PyInt(Cardinality((DOMAIN mapping) \ (DOMAIN old))))]

\* HDEL key field: [db, res], res the number of fields removed; a hash left
\* without fields is removed with its key
redis_hdel(d, key, field) ==
    IF key \notin DOMAIN d THEN [db |-> d, res |-> Ok(PyInt(0))]
    ELSE IF d[key].type # "hash" THEN [db |-> d, res |-> Raise("ResponseError", key)]
    ELSE IF field \notin DOMAIN d[key].val THEN [db |-> d, res |-> Ok(PyInt(0))]
    ELSE LET left == Without(d[key].val, {field})
         IN  [db |-> IF DOMAIN left = {} THEN Without(d, {key})
                     ELSE (key :> HashValue(left)) @@ d,
              res |-> Ok(PyInt(1))]

\* one queued command applied to the keyspace
redis_apply(d, c) ==
    CASE c.cmd = "DEL"  -> redis_delete(d, <<c.key>>)
      [] c.cmd = "HSET" -> redis_hset(d, c.key, c.mapping).db

\* MULTI ... EXEC: redis-py's pipeline() is transactional unless told otherwise
\* (line 173 passes nothing), so the queued commands are applied as one step
RECURSIVE redis_execute(_, _)
redis_execute(d, commands) ==
    IF commands = <<>> THEN d
    ELSE redis_execute(redis_apply(d, Head(commands)), Tail(commands))

----------------------------------------------------------------------------
(* Inputs *)

\* RedisAccountInfo instances of two processes, built with the default key_prefix
Insts == {"A", "B"}

DefaultPrefix == "b2sdk:"
\* the key_prefix of another tenant of the same Redis database; it extends
\* the default prefix by the head of two logical names
OtherPrefix == "b2sdk:application-"
Prefixes == {DefaultPrefix, OtherPrefix}

\* what the database holds that the instances of this model did not write: a
\* key of another application, and the session and bucket map that an
\* instance with the other tenant's prefix stored
ForeignKey == "celery:queue"
ForeignDb ==
    (ForeignKey :> StringValue(<<"j", "o", "b", "s">>))
    @@ ((OtherPrefix \o BUCKET_MAP_KEY) :> HashValue("pics" :> "4_z0th"))
    @@ redis_mset(<<>>,
         << <<OtherPrefix \o ACCOUNT_ID_KEY, <<"a", "c", "9">>>>,
            <<OtherPrefix \o APPLICATION_KEY_ID_KEY, <<"i", "d", "9">>>>,
            <<OtherPrefix \o APPLICATION_KEY_KEY, <<"K", "9", "/", "s">>>>,
            <<OtherPrefix \o AUTH_TOKEN_KEY, <<"4", "_", "t", "9", "=">>>>,
            <<OtherPrefix \o API_URL_KEY, <<"/", "/", "a", "p", "i", "9">>>>,
            <<OtherPrefix \o DOWNLOAD_URL_KEY, <<"/", "/", "f", "9">>>>,
            <<OtherPrefix \o MIN_PART_SIZE_KEY, redis_encode_int(5000000)>>,
            <<OtherPrefix \o REALM_KEY, <<"p", "r", "o", "d", "u", "c", "t", "i", "o", "n">>>>,
            <<OtherPrefix \o ALLOWED_KEY, json_dumps(PyDict(<< <<<<"b", "u", "c", "k", "e", "t", "I", "d">>, None>> >>))>> >>)

\* b2sdk Bucket objects (name, id_); "pics" was deleted and created again, so
\* the one name has had two ids
Buckets ==
    { [name |-> "pics", id_ |-> "4_z27c"],
      [name |-> "pics", id_ |-> "4_z99x"],
      [name |-> "docs", id_ |-> "4_zd0c"] }

BucketNames == {b.name : b \in Buckets}

\* the longest name_id_iterable passed to refresh_entire_bucket_name_cache
MaxEntries == 2

\* name_id_iterable: (name, id) of up to MaxEntries buckets, each bucket once
NameIdIterables ==
    LET all == UNION {[1..n -> {<<b.name, b.id_>> : b \in Buckets}] : n \in 0..MaxEntries}
    IN  {e \in all : \A m, n \in 1..Len(e) : m # n => e[m] # e[n]}

\* what callers pass as bucket_name / name to the lookup
LookupArgs == {None} \cup {PyStr(n) : n \in BucketNames \cup {"missing"}}

\* AbstractAccountInfo.DEFAULT_ALLOWED of b2sdk (the capability list is cut short)
DEFAULT_ALLOWED ==
    PyDict(<< <<<<"b", "u", "c", "k", "e", "t", "I", "d">>, None>>,
              <<<<"b", "u", "c", "k", "e", "t", "N", "a", "m", "e">>, None>>,
              <<<<"c", "a", "p", "a", "b", "i", "l", "i", "t", "i", "e", "s">>, PyList(<<PyStr(<<"l", "i", "s", "t", "K", "e", "y", "s">>), PyStr(<<"w", "r", "i", "t", "e", "F", "i", "l", "e", "s">>)>>)>>,
              <<<<"n", "a", "m", "e", "P", "r", "e", "f", "i", "x">>, None>> >>)

\* the arguments of _set_auth_data: the authorizations of two accounts; the
\* second is restricted to a bucket whose name holds a quote and a backslash
AuthData ==
    { [ account_id |-> <<"a", "c", "1">>, auth_token |-> <<"4", "_", "t", "1", "=">>,
        api_url |-> <<"/", "/", "a", "p", "i", "1">>, download_url |-> <<"/", "/", "f", "1">>,
        minimum_part_size |-> 5242880, application_key |-> <<"K", "1", "/", "s">>,
        realm |-> <<"p", "r", "o", "d", "u", "c", "t", "i", "o", "n">>,
        allowed |-> PyDict(<< <<<<"b", "u", "c", "k", "e", "t", "I", "d">>, None>>,
                              <<<<"c", "a", "p", "a", "b", "i", "l", "i", "t", "i", "e", "s">>, PyList(<<PyStr(<<"l", "i", "s", "t", "F", "i", "l", "e", "s">>), PyStr(<<"r", "e", "a", "d", "F", "i", "l", "e", "s">>)>>)>> >>),
        application_key_id |-> <<"i", "d", "1">> ],
      [ account_id |-> <<"a", "c", "2">>, auth_token |-> <<"4", "_", "t", "2", "=">>,
        api_url |-> <<"/", "/", "a", "p", "i", "2">>, download_url |-> <<"/", "/", "f", "2">>,
        minimum_part_size |-> 100000000, application_key |-> <<"K", "2", "/", "s">>,
        realm |-> <<"d", "e", "v">>,
        allowed |-> PyDict(<< <<<<"b", "u", "c", "k", "e", "t", "I", "d">>, PyStr(<<"4", "_", "z", "2", "7", "c">>)>>,
                              <<<<"b", "u", "c", "k", "e", "t", "N", "a", "m", "e">>, PyStr(<<"a", "\"", "b", "\\", "c">>)>>,
                              <<<<"c", "a", "p", "a", "b", "i", "l", "i", "t", "i", "e", "s">>, PyList(<<>>)>> >>),
        application_key_id |-> <<"i", "d", "2">> ] }

----------------------------------------------------------------------------
(* RedisAccountInfo: the key properties, lines 64-155 *)

\* PhysicalKey with the name of the instance made part of the key
PhysicalKey_per_instance(i, key) == key_prefix[i] \o i \o ":" \o key

\* "%s%s" % (self.key_prefix, key)
PhysicalKey(i, key) == key_prefix[i] \o key

_account_id_key(i) == PhysicalKey(i, ACCOUNT_ID_KEY)
_allowed_key(i) == PhysicalKey(i, ALLOWED_KEY)
_application_key_id_key(i) == PhysicalKey(i, APPLICATION_KEY_ID_KEY)
_application_key_key(i) == PhysicalKey(i, APPLICATION_KEY_KEY)
_auth_token_key(i) == PhysicalKey(i, AUTH_TOKEN_KEY)
_api_url_key(i) == PhysicalKey(i, API_URL_KEY)
bucket_map_key(i) == PhysicalKey(i, BUCKET_MAP_KEY)
_download_url_key(i) == PhysicalKey(i, DOWNLOAD_URL_KEY)
_minimum_part_size_key(i) == PhysicalKey(i, MIN_PART_SIZE_KEY)
_realm_key(i) == PhysicalKey(i, REALM_KEY)

_all_keys(i) == [n \in 1..Len(ALL_KEYS) |-> PhysicalKey(i, ALL_KEYS[n])]

----------------------------------------------------------------------------
(* RedisAccountInfo: the reads, lines 116-118 and 201-286.  A read is a      *)
(* function of the keyspace at the moment the server answers it.            *)

_get_account_info_or_raise(column_name) ==
    LET result == redis_get(db, column_name)
    IN  IF result.outcome # "ok" THEN result
        ELSE IF result.value.py = "None"
             THEN Raise("MissingAccountData", column_name)
        ELSE result

get_account_id(i) == _get_account_info_or_raise(_account_id_key(i))

get_application_key_id(i) == _get_account_info_or_raise(_application_key_id_key(i))

get_account_auth_token(i) == _get_account_info_or_raise(_auth_token_key(i))

get_api_url(i) == redis_get(db, _api_url_key(i))

get_application_key(i) == _get_account_info_or_raise(_application_key_key(i))

get_download_url(i) == _get_account_info_or_raise(_download_url_key(i))

get_realm(i) == _get_account_info_or_raise(_realm_key(i))

\* get_minimum_part_size returning the stored text without int()
get_minimum_part_size_uncast(i) == _get_account_info_or_raise(_minimum_part_size_key(i))

get_minimum_part_size(i) ==
    LET text == _get_account_info_or_raise(_minimum_part_size_key(i))
    IN  IF text.outcome # "ok" THEN text ELSE int(text.value.v)

get_allowed(i) ==
    LET allowed_json == _get_account_info_or_raise(_allowed_key(i))
    IN  IF allowed_json.outcome # "ok" THEN allowed_json
        ELSE IF allowed_json.value.py = "None" THEN Ok(DEFAULT_ALLOWED)
        ELSE json_loads(allowed_json.value.v)

_bucket_map(i) == redis_hgetall(db, bucket_map_key(i))

\* the lookup without the test of lines 215-217: bucket_name wins over name
get_bucket_id_or_none_from_bucket_name_unchecked(i, bucket_name, name) ==
    LET falsy == bucket_name.py = "None" \/ bucket_name.v = ""
        coalesced == IF falsy THEN name ELSE bucket_name
    IN  IF coalesced.py = "None"
        THEN Raise("ValueError", "is not a valid bucket_name.")
        ELSE redis_hget(db, bucket_map_key(i), coalesced.v)

\* bucket_name and name are None or PyStr(s)
get_bucket_id_or_none_from_bucket_name(i, bucket_name, name) ==
    IF name # bucket_name /\ bucket_name.py # "None" /\ name.py # "None"
    THEN Raise("ValueError", "Please specify one or the other.")
    ELSE LET falsy == bucket_name.py = "None" \/ bucket_name.v = ""
             coalesced == IF falsy THEN name ELSE bucket_name
         IN  IF coalesced.py = "None"       \* six.ensure_str(None): TypeError
             THEN Raise("ValueError", "is not a valid bucket_name.")
             ELSE redis_hget(db, bucket_map_key(i), coalesced.v)

----------------------------------------------------------------------------
(* RedisAccountInfo: the calls.  An instance is synchronous: it starts no    *)
(* call while its pipeline waits for the server.                            *)

NoPipeline == [entries |-> <<>>, commands |-> <<>>]

Idle(i) == pipeline[i].commands = <<>>

Return(i, op, res) == ret' = [inst |-> i, op |-> op, res |-> res]

Init ==
    /\ db = ForeignDb
    /\ key_prefix = [i \in Insts |-> DefaultPrefix]
    /\ pipeline = [i \in Insts |-> NoPipeline]
    /\ ret = [inst |-> "A", op |-> "__init__", res |-> Ok(None)]
    /\ session = [p \in Prefixes |-> None]
    /\ cache = [p \in Prefixes |-> EmptyHash]

\* AuthDataItems with the two application key arguments taken for one another
AuthDataItems_swapped(i, r) ==
    << <<_account_id_key(i), r.account_id>>,
       <<_application_key_id_key(i), r.application_key>>,
       <<_application_key_key(i), r.application_key_id>>,
       <<_auth_token_key(i), r.auth_token>>,
       <<_api_url_key(i), r.api_url>>,
       <<_download_url_key(i), r.download_url>>,
       <<_minimum_part_size_key(i), redis_encode_int(r.minimum_part_size)>>,
       <<_realm_key(i), r.realm>>,
       <<_allowed_key(i), json_dumps(r.allowed)>> >>

\* the dict handed to mset, lines 318-328, as its items in order
AuthDataItems(i, r) ==
    << <<_account_id_key(i), r.account_id>>,
       <<_application_key_id_key(i), r.application_key_id>>,
       <<_application_key_key(i), r.application_key>>,
       <<_auth_token_key(i), r.auth_token>>,
       <<_api_url_key(i), r.api_url>>,
       <<_download_url_key(i), r.download_url>>,
       <<_minimum_part_size_key(i), redis_encode_int(r.minimum_part_size)>>,
       <<_realm_key(i), r.realm>>,
       <<_allowed_key(i), json_dumps(r.allowed)>> >>

\* _set_auth_data writing the fields in two requests, seen after the first
_set_auth_data_in_two_requests(i, r) ==
    /\ Idle(i)
    /\ db' = redis_mset(db, SubSeq(AuthDataItems(i, r), 1, 4))
    /\ session' = [session EXCEPT ![key_prefix[i]] = r]
    /\ Return(i, "_set_auth_data", Ok(None))
    /\ UNCHANGED <<key_prefix, pipeline, cache>>

_set_auth_data(i, r) ==
    /\ Idle(i)
    /\ db' = redis_mset(db, AuthDataItems(i, r))
    /\ session' = [session EXCEPT ![key_prefix[i]] = r]
    /\ Return(i, "_set_auth_data", Ok(None))
    /\ UNCHANGED <<key_prefix, pipeline, cache>>

\* clear emptying the whole database (FLUSHDB) instead of deleting its keys
clear_flushdb(i) ==
    /\ Idle(i)
    /\ db' = Without(db, DOMAIN db)
    /\ session' = [session EXCEPT ![key_prefix[i]] = None]
    /\ cache' = [cache EXCEPT ![key_prefix[i]] = EmptyHash]
    /\ Return(i, "clear", Ok(None))
    /\ UNCHANGED <<key_prefix, pipeline>>

\* clear deleting only those of its keys that exist: DEL without a key is an
\* error of the server
clear_existing_keys(i) ==
    LET existing == SelectSeq(_all_keys(i), LAMBDA k : k \in DOMAIN db)
    IN  /\ Idle(i)
        /\ db' = redis_delete(db, existing)
        /\ session' = [session EXCEPT ![key_prefix[i]] = None]
        /\ cache' = [cache EXCEPT ![key_prefix[i]] = EmptyHash]
        /\ Return(i, "clear",
                  IF existing = <<>>
                  THEN Raise("ResponseError", "wrong number of arguments for 'del' command")
                  ELSE Ok(None))
        /\ UNCHANGED <<key_prefix, pipeline>>

\* super().clear() resets the upload URL pools b2sdk keeps in the instance's
\* memory; they hold no session or cache data and are not part of this model
clear(i) ==
    /\ Idle(i)
    /\ db' = redis_delete(db, _all_keys(i))
    /\ session' = [session EXCEPT ![key_prefix[i]] = None]
    /\ cache' = [cache EXCEPT ![key_prefix[i]] = EmptyHash]
    /\ Return(i, "clear", Ok(None))
    /\ UNCHANGED <<key_prefix, pipeline>>

\* {bucket_name: bucket_id for bucket_name, bucket_id in name_id_iterable}
RECURSIVE NewMap(_)
NewMap(entries) ==
    IF entries = <<>> THEN EmptyHash
    ELSE LET last == entries[Len(entries)]
         IN  (last[1] :> last[2]) @@ NewMap(SubSeq(entries, 1, Len(entries) - 1))

\* QueuedCommands without the delete of the old table
QueuedCommands_without_delete(i, entries) ==
    LET new_map == NewMap(entries)
    IN  IF DOMAIN new_map # {}
        THEN <<[cmd |-> "HSET", key |-> bucket_map_key(i), mapping |-> new_map]>>
        ELSE <<[cmd |-> "DEL", key |-> bucket_map_key(i), mapping |-> EmptyHash]>>

\* QueuedCommands without the test "if new_map"
QueuedCommands_always_hset(i, entries) ==
    <<[cmd |-> "DEL", key |-> bucket_map_key(i), mapping |-> EmptyHash],
      [cmd |-> "HSET", key |-> bucket_map_key(i), mapping |-> NewMap(entries)]>>

\* lines 172-176: the commands queued on the pipeline
QueuedCommands(i, entries) ==
    LET new_map == NewMap(entries)
    IN  <<[cmd |-> "DEL", key |-> bucket_map_key(i), mapping |-> EmptyHash]>>
        \o (IF DOMAIN new_map # {}
            THEN <<[cmd |-> "HSET", key |-> bucket_map_key(i), mapping |-> new_map]>>
            ELSE <<>>)

refresh_entire_bucket_name_cache(i, entries) ==
    /\ Idle(i)
    /\ pipeline' = [pipeline EXCEPT ![i] =
                       [entries |-> entries, commands |-> QueuedCommands(i, entries)]]
    /\ UNCHANGED <<db, key_prefix, ret, session, cache>>

\* pipeline_execute on a pipeline made with transaction=False: the server runs
\* one queued command per step, and the call returns after the last
pipeline_execute_one_by_one(i) ==
    LET rest == Tail(pipeline[i].commands)
    IN  /\ ~Idle(i)
        /\ db' = redis_apply(db, Head(pipeline[i].commands))
        /\ IF rest = <<>>
           THEN /\ pipeline' = [pipeline EXCEPT ![i] = NoPipeline]
                /\ cache' = [cache EXCEPT ![key_prefix[i]] = NewMap(pipeline[i].entries)]
                /\ Return(i, "refresh_entire_bucket_name_cache", Ok(None))
           ELSE /\ pipeline' = [pipeline EXCEPT ![i].commands = rest]
                /\ UNCHANGED <<cache, ret>>
        /\ UNCHANGED <<key_prefix, session>>

\* line 177: the server runs the queued commands and the call returns
pipeline_execute(i) ==
    /\ ~Idle(i)
    /\ db' = redis_execute(db, pipeline[i].commands)
    /\ pipeline' = [pipeline EXCEPT ![i] = NoPipeline]
    /\ cache' = [cache EXCEPT ![key_prefix[i]] = NewMap(pipeline[i].entries)]
    /\ Return(i, "refresh_entire_bucket_name_cache", Ok(None))
    /\ UNCHANGED <<key_prefix, session>>

\* remove_bucket_name deleting the whole table when it holds the name
remove_bucket_name_whole_table(i, bucket_name) ==
    LET r == redis_hdel(db, bucket_map_key(i), bucket_name)
    IN  /\ Idle(i)
        /\ db' = IF r.res = Ok(PyInt(1)) THEN redis_delete(db, <<bucket_map_key(i)>>)
                 ELSE r.db
        /\ cache' = [cache EXCEPT ![key_prefix[i]] = Without(@, {bucket_name})]
        /\ Return(i, "remove_bucket_name", r.res)
        /\ UNCHANGED <<key_prefix, pipeline, session>>

remove_bucket_name(i, bucket_name) ==
    LET r == redis_hdel(db, bucket_map_key(i), bucket_name)
    IN  /\ Idle(i)
        /\ db' = r.db
        /\ cache' = [cache EXCEPT ![key_prefix[i]] = Without(@, {bucket_name})]
        /\ Return(i, "remove_bucket_name", r.res)
        /\ UNCHANGED <<key_prefix, pipeline, session>>

\* save_bucket with HSETNX, which leaves the id of a name already cached
save_bucket_hsetnx(i, bucket) ==
    LET exists == redis_hget(db, bucket_map_key(i), bucket.name).value.py # "None"
        r == IF exists THEN [db |-> db, res |-> Ok(PyInt(0))]
             ELSE redis_hset(db, bucket_map_key(i), bucket.name :> bucket.id_)
    IN  /\ Idle(i)
        /\ db' = r.db
        /\ cache' = [cache EXCEPT ![key_prefix[i]] = (bucket.name :> bucket.id_) @@ @]
        /\ Return(i, "save_bucket", r.res)
        /\ UNCHANGED <<key_prefix, pipeline, session>>

save_bucket(i, bucket) ==
    LET r == redis_hset(db, bucket_map_key(i), bucket.name :> bucket.id_)
    IN  /\ Idle(i)
        /\ db' = r.db
        /\ cache' = [cache EXCEPT ![key_prefix[i]] = (bucket.name :> bucket.id_) @@ @]
        /\ Return(i, "save_bucket", r.res)
        /\ UNCHANGED <<key_prefix, pipeline, session>>

\* a read leaves the keyspace as it is and returns what the server answered
Read(i, op, res) ==
    /\ Idle(i)
    /\ Return(i, op, res)
    /\ UNCHANGED <<db, key_prefix, pipeline, session, cache>>

Call_get_account_id(i) == Read(i, "get_account_id", get_account_id(i))
Call_get_application_key_id(i) ==
    Read(i, "get_application_key_id", get_application_key_id(i))
Call_get_account_auth_token(i) ==
    Read(i, "get_account_auth_token", get_account_auth_token(i))
Call_get_api_url(i) == Read(i, "get_api_url", get_api_url(i))
Call_get_application_key(i) == Read(i, "get_application_key", get_application_key(i))
Call_get_download_url(i) == Read(i, "get_download_url", get_download_url(i))
Call_get_realm(i) == Read(i, "get_realm", get_realm(i))
Call_get_minimum_part_size(i) ==
    Read(i, "get_minimum_part_size", get_minimum_part_size(i))
Call_get_allowed(i) == Read(i, "get_allowed", get_allowed(i))
Call_bucket_map(i) == Read(i, "_bucket_map", _bucket_map(i))
Call_get_bucket_id_or_none_from_bucket_name(i, bucket_name, name) ==
    Read(i, "get_bucket_id_or_none_from_bucket_name",
         get_bucket_id_or_none_from_bucket_name(i, bucket_name, name))

Next ==
    \E i \in Insts :
        \/ \E r \in AuthData : _set_auth_data(i, r)
        \/ clear(i)
        \/ \E entries \in NameIdIterables : refresh_entire_bucket_name_cache(i, entries)
        \/ pipeline_execute(i)
        \/ \E n \in BucketNames : remove_bucket_name(i, n)
        \/ \E b \in Buckets : save_bucket(i, b)
        \/ Call_get_account_id(i)
        \/ Call_get_application_key_id(i)
        \/ Call_get_account_auth_token(i)
        \/ Call_get_api_url(i)
        \/ Call_get_application_key(i)
        \/ Call_get_download_url(i)
        \/ Call_get_realm(i)
        \/ Call_get_minimum_part_size(i)
        \/ Call_get_allowed(i)
        \/ Call_bucket_map(i)
        \/ \E bucket_name \in LookupArgs, name \in LookupArgs :
               Call_get_bucket_id_or_none_from_bucket_name(i, bucket_name, name)

Spec == Init /\ [][Next]_vars

----------------------------------------------------------------------------
(* The reads, whatever the keys hold.  _set_auth_data passes minimum_part_size *)
(* to mset as it got it (line 325), and redis-py stores a str as given: the   *)
(* text under min-part-size is whatever the caller passed.                   *)

\* the longest text stored under min-part-size
MaxTextLen == 3

\* a digit, zero, a sign, a blank and a letter
TextAlphabet == {"5", "0", "-", " ", "x"}

\* the str values passed as minimum_part_size
StoredTexts ==
    UNION {[1..n -> TextAlphabet] : n \in 0..MaxTextLen}
        \cup {<<"5", "2", "4", "2", "8", "8", "0">>}

\* the keyspace after _set_auth_data(r) with the str text as minimum_part_size
StoredSession(i, r, text) ==
    redis_mset(redis_mset(ForeignDb, AuthDataItems(i, r)),
               << <<_minimum_part_size_key(i), text>> >>)

\* what the bucket map key holds: nothing, the hash save_bucket wrote, or a
\* plain string that another client of the database SET under the key
StoredMaps ==
    { [present |-> FALSE, val |-> HashValue(EmptyHash)],
      [present |-> TRUE, val |-> HashValue(("pics" :> "4_z27c") @@ ("docs" :> "4_zd0c"))],
      [present |-> TRUE, val |-> StringValue(<<"x">>)] }

WithMap(d, i, m) == IF m.present THEN (bucket_map_key(i) :> m.val) @@ d ELSE d

\* the empty str is a name a caller can pass, too
StoredLookupArgs == LookupArgs \cup {PyStr("")}

InitStored ==
    /\ key_prefix = [i \in Insts |-> DefaultPrefix]
    /\ pipeline = [i \in Insts |-> NoPipeline]
    /\ ret = [inst |-> "A", op |-> "__init__", res |-> Ok(None)]
    /\ \E m \in StoredMaps :
          /\ cache = [p \in Prefixes |->
                         IF p = DefaultPrefix /\ m.val.type = "hash" THEN m.val.val
                         ELSE EmptyHash]
          /\ \/ /\ db = WithMap(ForeignDb, "A", m)
                /\ session = [p \in Prefixes |-> None]
             \/ \E r \in AuthData, text \in StoredTexts :
                   /\ db = WithMap(StoredSession("A", r, text), "A", m)
                   /\ session = [p \in Prefixes |->
                                   IF p = DefaultPrefix
                                   THEN [r EXCEPT !.minimum_part_size = text]
                                   ELSE None]

NextStored ==
    \E i \in Insts :
        \/ Call_get_minimum_part_size(i)
        \/ \E bucket_name \in StoredLookupArgs, name \in StoredLookupArgs :
               Call_get_bucket_id_or_none_from_bucket_name(i, bucket_name, name)

SpecStored == InitStored /\ [][NextStored]_vars

----------------------------------------------------------------------------
(* The instances when their key_prefix is assigned to.  key_prefix is a       *)
(* property with a public setter, which __init__ itself uses (line 62).      *)

\* key_prefix.setter, lines 135-139: six.ensure_str(value), then the assignment
key_prefix_setter(i, value) ==
    /\ Idle(i)
    /\ key_prefix' = [key_prefix EXCEPT ![i] = value]
    /\ Return(i, "key_prefix.setter", Ok(None))
    /\ UNCHANGED <<db, pipeline, session, cache>>

NextPrefix ==
    \E i \in Insts :
        \/ \E value \in Prefixes : key_prefix_setter(i, value)
        \/ \E r \in AuthData : _set_auth_data(i, r)
        \/ clear(i)
        \/ Call_get_account_id(i)

SpecPrefix == Init /\ [][NextPrefix]_vars

----------------------------------------------------------------------------
(* The calls that write in bulk when the backend fails.  Each sends one       *)
(* request (an MSET, a DEL, a MULTI ... EXEC block) and no method catches     *)
(* what redis-py raises.  The connection can be lost before the server has   *)
(* the request, or after the server has run it and before its reply arrives: *)
(* applied tells which.                                                      *)

BackendFailure == Raise("ConnectionError", "Connection closed by server.")

\* _set_auth_data with its fields sent in two requests, the failure hitting
\* the second one
_set_auth_data_backend_failure_in_second_request(i, r, applied) ==
    /\ Idle(i)
    /\ db' = IF applied THEN redis_mset(db, AuthDataItems(i, r))
             ELSE redis_mset(db, SubSeq(AuthDataItems(i, r), 1, 4))
    /\ session' = [session EXCEPT ![key_prefix[i]] = r]
    /\ Return(i, "_set_auth_data", BackendFailure)
    /\ UNCHANGED <<key_prefix, pipeline, cache>>

\* line 328: self._redis.mset(mapping) raises
_set_auth_data_backend_failure(i, r, applied) ==
    /\ Idle(i)
    /\ db' = IF applied THEN redis_mset(db, AuthDataItems(i, r)) ELSE db
    /\ session' = IF applied THEN [session EXCEPT ![key_prefix[i]] = r] ELSE session
    /\ Return(i, "_set_auth_data", BackendFailure)
    /\ UNCHANGED <<key_prefix, pipeline, cache>>

\* line 161: self._redis.delete(*self._all_keys) raises; super().clear() is
\* not reached
clear_backend_failure(i, applied) ==
    /\ Idle(i)
    /\ db' = IF applied THEN redis_delete(db, _all_keys(i)) ELSE db
    /\ session' = IF applied THEN [session EXCEPT ![key_prefix[i]] = None] ELSE session
    /\ cache' = IF applied THEN [cache EXCEPT ![key_prefix[i]] = EmptyHash] ELSE cache
    /\ Return(i, "clear", BackendFailure)
    /\ UNCHANGED <<key_prefix, pipeline>>

\* line 177: pipeline.execute() raises; the pipeline is reset
pipeline_execute_backend_failure(i, applied) ==
    /\ ~Idle(i)
    /\ db' = IF applied THEN redis_execute(db, pipeline[i].commands) ELSE db
    /\ pipeline' = [pipeline EXCEPT ![i] = NoPipeline]
    /\ cache' = IF applied
                THEN [cache EXCEPT ![key_prefix[i]] = NewMap(pipeline[i].entries)]
                ELSE cache
    /\ Return(i, "refresh_entire_bucket_name_cache", BackendFailure)
    /\ UNCHANGED <<key_prefix, session>>

NextFaulty ==
    \E i \in Insts :
        \/ \E r \in AuthData : _set_auth_data(i, r)
        \/ clear(i)
        \/ \E entries \in NameIdIterables : refresh_entire_bucket_name_cache(i, entries)
        \/ pipeline_execute(i)
        \/ \E r \in AuthData, applied \in BOOLEAN :
               _set_auth_data_backend_failure(i, r, applied)
        \/ \E applied \in BOOLEAN : clear_backend_failure(i, applied)
        \/ \E applied \in BOOLEAN : pipeline_execute_backend_failure(i, applied)

SpecFaulty == Init /\ [][NextFaulty]_vars

----------------------------------------------------------------------------
(* Properties *)

\* the session fields of the account info, by the name each is stored under
SessionFields ==
    { "account-id", "application-key-id", "application-key", "auth-token",
      "api-url", "download-url", "min-part-size", "realm", "allowed" }

\* the prefix an instance reads and writes under
PrefixOf(i) == key_prefix[i]

\* C1: after _set_auth_data(r), and until the next _set_auth_data or clear on
\* the same prefix, every field getter returns the field of r: the strings as
\* given, minimum_part_size as the integer given, allowed as the dict given.
C1_RoundTrip ==
    \A i \in Insts :
        LET r == session[PrefixOf(i)]
        IN  r # None =>
              /\ get_account_id(i) = Ok(PyStr(r.account_id))
              /\ get_application_key_id(i) = Ok(PyStr(r.application_key_id))
              /\ get_application_key(i) = Ok(PyStr(r.application_key))
              /\ get_account_auth_token(i) = Ok(PyStr(r.auth_token))
              /\ get_api_url(i) = Ok(PyStr(r.api_url))
              /\ get_download_url(i) = Ok(PyStr(r.download_url))
              /\ get_minimum_part_size(i) = Ok(PyInt(r.minimum_part_size))
              /\ get_realm(i) = Ok(PyStr(r.realm))
              /\ get_allowed(i) = Ok(r.allowed)

\* C1 witness: get_allowed has returned the dict of the stored session whose
\* bucketName holds a quote and a backslash
C1_Witness ==
    /\ ret.op = "get_allowed"
    /\ session[PrefixOf(ret.inst)] # None
    /\ ret.res = Ok(session[PrefixOf(ret.inst)].allowed)
    /\ Len(session[PrefixOf(ret.inst)].allowed.v) = 3
    /\ get_minimum_part_size(ret.inst) = Ok(PyInt(100000000))

\* the getters that C2 names
MissingDataGetters ==
    { "get_account_id", "get_application_key_id", "get_application_key",
      "get_account_auth_token", "get_api_url", "get_download_url",
      "get_minimum_part_size", "get_realm" }

\* C2 (as claimed): a session field getter that returns while no session is
\* stored under its prefix has raised MissingAccountData.
C2_MissingDataWithoutSession ==
    (ret.op \in MissingDataGetters /\ session[PrefixOf(ret.inst)] = None)
        => ret.res.outcome = "MissingAccountData"

\* C3 (as claimed): get_allowed called while the allowed key is absent returns
\* DEFAULT_ALLOWED.
C3_AllowedDefault ==
    (ret.op = "get_allowed" /\ (PrefixOf(ret.inst) \o "allowed") \notin DOMAIN db)
        => (ret.res.outcome = "ok" /\ ret.res.value = DEFAULT_ALLOWED)

\* C4: whatever the instances sharing the prefix have done, the session fields
\* stored under it are all absent or are, all nine, what one _set_auth_data
\* call wrote.
C4_NoSplice ==
    \A i \in Insts :
        \/ \A f \in SessionFields : (PrefixOf(i) \o f) \notin DOMAIN db
        \/ \E r \in AuthData :
              LET items == AuthDataItems(i, r)
              IN  /\ {items[n][1] : n \in 1..Len(items)}
                        = {PrefixOf(i) \o f : f \in SessionFields}
                  /\ \A n \in 1..Len(items) :
                        /\ items[n][1] \in DOMAIN db
                        /\ db[items[n][1]] = StringValue(items[n][2])

\* C4 witness: _set_auth_data has returned on B and the second record is the
\* one stored, while instance A has a call in progress
C4_Witness ==
    /\ ret = [inst |-> "B", op |-> "_set_auth_data", res |-> Ok(None)]
    /\ ~Idle("A")
    /\ get_realm("A") = Ok(PyStr(<<"d", "e", "v">>))

\* the names a lookup is made with: every bucket name and one never cached
LookupNames == BucketNames \cup {"missing"}

\* lookupBucketId(name) on instance i
Lookup(i, name) == get_bucket_id_or_none_from_bucket_name(i, PyStr(name), None)

\* what a lookup of name returns when the cache table is the mapping table
Cached(table, name) ==
    IF name \in DOMAIN table THEN Ok(PyStr(table[name])) ELSE Ok(None)

\* C5: while a refresh_entire_bucket_name_cache is in progress on any
\* instance, every instance of the prefix reads the table as a whole: the
\* full table and each lookup are those of the table left by the cache calls
\* completed so far, never an emptied or half filled one.
C5_ReadersSeeWholeTable ==
    \A i \in Insts :
        ~Idle(i) =>
            \A j \in Insts :
                PrefixOf(j) = PrefixOf(i) =>
                    /\ _bucket_map(j) = Ok(PyDict(cache[PrefixOf(i)]))
                    /\ \A n \in LookupNames :
                           Lookup(j, n) = Cached(cache[PrefixOf(i)], n)

\* C5 witness: B has read the whole old table (two names) while A's refresh
\* with a different, non-empty table waits for the server
C5_Witness ==
    /\ ~Idle("A")
    /\ pipeline["A"].entries # <<>>
    /\ ret.inst = "B"
    /\ ret.op = "_bucket_map"
    /\ ret.res = Ok(PyDict(cache[PrefixOf("B")]))
    /\ DOMAIN cache[PrefixOf("B")] = BucketNames
    /\ NewMap(pipeline["A"].entries) # cache[PrefixOf("B")]

\* the session fields present under the prefix of instance i
Present(i) == {f \in SessionFields : (PrefixOf(i) \o f) \in DOMAIN db}

\* C6: under one prefix the nine session fields are all present or all absent,
\* in the first state and after every step; only a _set_auth_data step takes
\* them from absent to present and only a clear step from present to absent.
C6_AllOrNothing ==
    /\ \A i \in Insts : Present(i) \in {{}, SessionFields}
    /\ [][\A i \in Insts :
             /\ Present(i)' \in {{}, SessionFields}
             /\ (Present(i) = {} /\ Present(i)' # {})
                    => \E j \in Insts, r \in AuthData : _set_auth_data(j, r)
             /\ (Present(i) # {} /\ Present(i)' = {})
                    => \E j \in Insts : clear(j)]_vars

\* C6 witness: _set_auth_data has returned on B and the nine fields are
\* present, while a call of A is in progress
C6_Witness ==
    /\ ret = [inst |-> "B", op |-> "_set_auth_data", res |-> Ok(None)]
    /\ Present("B") = SessionFields
    /\ ~Idle("A")

\* the logical names an adapter uses: the session fields and the cache table
LogicalNames == SessionFields \cup {"bucket-map"}

\* C7: a clear step on an instance with prefix P removes the keys P + name of
\* the ten logical names, removes and changes no other key (not the other
\* tenant's, not another application's), and after it every lookup under P
\* returns None.
C7_ClearFrame ==
    [][\A i \in Insts :
          clear(i) =>
              LET owned == {PrefixOf(i) \o n : n \in LogicalNames}
              IN  /\ DOMAIN db' = (DOMAIN db) \ owned
                  /\ \A k \in (DOMAIN db) \ owned : db'[k] = db[k]
                  /\ \A n \in LookupNames : Lookup(i, n)' = Ok(None)]_vars

\* C7 witness: a clear has returned; the other tenant's ten keys and the
\* other application's key are in the database, the instance's own are not
C7_Witness ==
    /\ ret.op = "clear"
    /\ DOMAIN db = DOMAIN ForeignDb
    /\ Cardinality(DOMAIN db) = Cardinality(LogicalNames) + 1
    /\ \A n \in LogicalNames : (PrefixOf(ret.inst) \o n) \notin DOMAIN db

\* the names of entries are unique
UniqueNames(entries) ==
    \A m, n \in 1..Len(entries) : m # n => entries[m][1] # entries[n][1]

\* C8: the step that completes refresh_entire_bucket_name_cache(entries),
\* entries with unique names, leaves a table in which the lookup of n returns
\* id for every (n, id) of entries and None for every other name, cached
\* before or not.
C8_RefreshThenLookup ==
    [][\A i \in Insts :
          (pipeline_execute(i) /\ UniqueNames(pipeline[i].entries)) =>
              \A entries \in {pipeline[i].entries} :
                  /\ \A k \in 1..Len(entries) :
                         Lookup(i, entries[k][1])' = Ok(PyStr(entries[k][2]))
                  /\ \A n \in LookupNames :
                         (\A k \in 1..Len(entries) : entries[k][1] # n)
                             => Lookup(i, n)' = Ok(None)]_vars

\* C8 witness: a refresh has returned and left only "docs" in the table
C8_Witness ==
    /\ ret.op = "refresh_entire_bucket_name_cache"
    /\ _bucket_map(ret.inst) = Ok(PyDict("docs" :> "4_zd0c"))
    /\ Lookup(ret.inst, "pics") = Ok(None)

\* C9: refresh_entire_bucket_name_cache with no entries queues a delete and no
\* HSET; the step that completes it leaves the cache table absent and every
\* lookup returning None.
C9_EmptyRefresh ==
    [][\A i \in Insts :
          /\ refresh_entire_bucket_name_cache(i, <<>>) =>
                 \A k \in 1..Len(pipeline'[i].commands) :
                     pipeline'[i].commands[k].cmd # "HSET"
          /\ (pipeline_execute(i) /\ pipeline[i].entries = <<>>) =>
                 /\ \A k \in 1..Len(pipeline[i].commands) :
                        pipeline[i].commands[k].cmd # "HSET"
                 /\ (PrefixOf(i) \o "bucket-map") \notin DOMAIN db'
                 /\ \A n \in LookupNames : Lookup(i, n)' = Ok(None)]_vars

\* C9 witness: a refresh has returned and the cache table is absent, which
\* only a refresh with no entries leaves
C9_Witness ==
    /\ ret.op = "refresh_entire_bucket_name_cache"
    /\ (PrefixOf(ret.inst) \o "bucket-map") \notin DOMAIN db
    /\ \A n \in LookupNames : Lookup(ret.inst, n) = Ok(None)

\* C10: a save_bucket(bucket) step returns 1 ("created") exactly when the name
\* was not in the cache table before it and 0 ("overwrote") when it was,
\* whatever the id cached; after it the lookup of the name returns the
\* bucket's id and every other name is cached as it was.
C10_SaveBucket ==
    [][\A i \in Insts, b \in Buckets :
          save_bucket(i, b) =>
              LET before == _bucket_map(i).value.v
              IN  /\ ret'.res = Ok(PyInt(IF b.name \in DOMAIN before THEN 0 ELSE 1))
                  /\ Lookup(i, b.name)' = Ok(PyStr(b.id_))
                  /\ \A n \in LookupNames \ {b.name} :
                         Lookup(i, n)' = Cached(before, n)]_vars

\* C10 witness: save_bucket has returned 0 for "pics", cached already; its
\* second id is the one cached now and "docs" is cached as before
C10_Witness ==
    /\ ret.op = "save_bucket"
    /\ ret.res = Ok(PyInt(0))
    /\ cache[PrefixOf(ret.inst)] = ("pics" :> "4_z99x") @@ ("docs" :> "4_zd0c")
    /\ _bucket_map(ret.inst) = Ok(PyDict(("pics" :> "4_z99x") @@ ("docs" :> "4_zd0c")))

\* C11: a remove_bucket_name(n) step returns 1 ("existed") exactly when n was
\* in the cache table before it and 0, without an error, when it was not;
\* after it the lookup of n returns None and every other name is cached as it
\* was.
C11_RemoveBucketName ==
    [][\A i \in Insts, n \in BucketNames :
          remove_bucket_name(i, n) =>
              LET before == _bucket_map(i).value.v
              IN  /\ ret'.res = Ok(PyInt(IF n \in DOMAIN before THEN 1 ELSE 0))
                  /\ Lookup(i, n)' = Ok(None)
                  /\ \A m \in LookupNames \ {n} :
                         Lookup(i, m)' = Cached(before, m)]_vars

\* C11 witness: remove_bucket_name has returned 1 for "pics" and left "docs"
\* cached as it was
C11_Witness ==
    /\ ret.op = "remove_bucket_name"
    /\ ret.res = Ok(PyInt(1))
    /\ cache[PrefixOf(ret.inst)] = ("docs" :> "4_zd0c")
    /\ _bucket_map(ret.inst) = Ok(PyDict("docs" :> "4_zd0c"))
    /\ Lookup(ret.inst, "pics") = Ok(None)

\* the cache table key of instance i
TableKey(i) == PrefixOf(i) \o "bucket-map"

\* C12: the lookup called with both bucket_name and name raises ValueError
\* when the two differ and when neither is given, whatever the bucket map key
\* holds (also when a read of it would fail: no read is made); called with
\* the two equal it returns what the read of that field of the cache table
\* returns, which for a non-empty value is the lookup of it.
C12_AliasedLookup ==
    \A i \in Insts :
        /\ \A bucket_name \in StoredLookupArgs, name \in StoredLookupArgs :
               (bucket_name # None /\ name # None /\ bucket_name # name) =>
                   get_bucket_id_or_none_from_bucket_name(i, bucket_name, name).outcome
                       = "ValueError"
        /\ get_bucket_id_or_none_from_bucket_name(i, None, None).outcome = "ValueError"
        /\ \A v \in LookupNames \cup {""} :
               /\ get_bucket_id_or_none_from_bucket_name(i, PyStr(v), PyStr(v))
                      = redis_hget(db, TableKey(i), v)
               /\ v # "" =>
                      get_bucket_id_or_none_from_bucket_name(i, PyStr(v), PyStr(v))
                          = Lookup(i, v)

\* C12 witness: a lookup has raised ValueError while the bucket map key holds
\* a plain string, which every read of the table fails on
C12_Witness ==
    /\ ret.op = "get_bucket_id_or_none_from_bucket_name"
    /\ ret.res.outcome = "ValueError"
    /\ TableKey(ret.inst) \in DOMAIN db
    /\ db[TableKey(ret.inst)].type = "string"
    /\ Lookup(ret.inst, "pics").outcome = "ResponseError"

\* text is blanks, one sign at most, one digit or more, blanks
Numeric(text) ==
    \E lo \in 1..Len(text), hi \in 1..Len(text) :
        /\ lo <= hi
        /\ \A k \in 1..(lo - 1) : text[k] \in {" ", "\t", "\n", "\r"}
        /\ \A k \in (hi + 1)..Len(text) : text[k] \in {" ", "\t", "\n", "\r"}
        /\ text[hi] \in {"0", "1", "2", "3", "4", "5", "6", "7", "8", "9"}
        /\ \A k \in (lo + 1)..hi :
               text[k] \in {"0", "1", "2", "3", "4", "5", "6", "7", "8", "9"}
        /\ text[lo] \in {"+", "-", "0", "1", "2", "3", "4", "5", "6", "7", "8", "9"}

RECURSIVE Pow10(_)
Pow10(n) == IF n = 0 THEN 1 ELSE 10 * Pow10(n - 1)

DigitOf(c) ==
    CASE c = "0" -> 0 [] c = "1" -> 1 [] c = "2" -> 2 [] c = "3" -> 3 [] c = "4" -> 4
      [] c = "5" -> 5 [] c = "6" -> 6 [] c = "7" -> 7 [] c = "8" -> 8 [] c = "9" -> 9
      [] OTHER -> 0

\* the number a numeric text denotes: its digits by their places, negated
\* after a minus sign
RECURSIVE PlaceSum(_, _, _)
PlaceSum(text, k, places) ==
    IF k = 0 THEN 0
    ELSE IF text[k] \in {" ", "\t", "\n", "\r"} THEN PlaceSum(text, k - 1, places)
    ELSE IF text[k] = "-" THEN 0
    ELSE IF text[k] = "+" THEN 0
    ELSE DigitOf(text[k]) * Pow10(places) + PlaceSum(text, k - 1, places + 1)

Denoted(text) ==
    IF \E k \in 1..Len(text) : text[k] = "-"
    THEN 0 - PlaceSum(text, Len(text), 0) ELSE PlaceSum(text, Len(text), 0)

\* C13: get_minimum_part_size returns the integer that the stored text
\* denotes when the text is numeric ("5242880" gives 5242880), raises
\* ValueError when the text is not numeric, and raises MissingAccountData
\* when the key is absent: the two failures are of different kinds.
C13_MinimumPartSize ==
    \A i \in Insts :
        LET key == PrefixOf(i) \o "min-part-size"
            got == get_minimum_part_size(i)
        IN  /\ key \notin DOMAIN db => got.outcome = "MissingAccountData"
            /\ key \in DOMAIN db =>
                   /\ Numeric(db[key].val) => got = Ok(PyInt(Denoted(db[key].val)))
                   /\ ~Numeric(db[key].val) => got.outcome = "ValueError"
                   /\ db[key].val = <<"5", "2", "4", "2", "8", "8", "0">>
                          => got = Ok(PyInt(5242880))

\* C13 witness: get_minimum_part_size has raised ValueError on the stored
\* text "5x"
C13_Witness ==
    /\ ret.op = "get_minimum_part_size"
    /\ ret.res.outcome = "ValueError"
    /\ db[PrefixOf(ret.inst) \o "min-part-size"].val = <<"5", "x">>

\* C20 (as claimed): for every name value v, the empty str included, the
\* lookup called with v as bucket_name only, as name only, and as both gives
\* one and the same outcome.
C20_AliasesAgree ==
    \A i \in Insts :
        \A v \in LookupNames \cup {""} :
            /\ get_bucket_id_or_none_from_bucket_name(i, PyStr(v), None)
                   = get_bucket_id_or_none_from_bucket_name(i, None, PyStr(v))
            /\ get_bucket_id_or_none_from_bucket_name(i, None, PyStr(v))
                   = get_bucket_id_or_none_from_bucket_name(i, PyStr(v), PyStr(v))

\* the physical keys an instance owns
Owned(i) == {PrefixOf(i) \o n : n \in LogicalNames}

\* C14: every clear step returns without an error; a clear step taken while
\* the store holds no key of the prefix leaves the database as it is, and
\* every clear step leaves the store in that state, so that a second clear
\* changes nothing.
C14_ClearIdempotent ==
    [][\A i \in Insts :
          clear(i) =>
              /\ ret'.res = Ok(None)
              /\ (Owned(i) \cap DOMAIN db = {}) => db' = db
              /\ Owned(i) \cap DOMAIN db' = {}]_vars

\* C14 witness: a clear has returned without an error on an instance whose
\* prefix holds no session and no cache table, the state a second clear
\* starts from and ends in
C14_Witness ==
    /\ ret.op = "clear"
    /\ ret.res = Ok(None)
    /\ Owned(ret.inst) \cap DOMAIN db = {}
    /\ session[PrefixOf(ret.inst)] = None
    /\ cache[PrefixOf(ret.inst)] = EmptyHash
    /\ \A i \in Insts : Idle(i)

\* all that instance j can read: the nine session fields, the whole cache
\* table and the lookup of every name
Reads(j) ==
    << get_account_id(j), get_application_key_id(j), get_application_key(j),
       get_account_auth_token(j), get_api_url(j), get_download_url(j),
       get_minimum_part_size(j), get_realm(j), get_allowed(j), _bucket_map(j),
       [n \in LookupNames |-> Lookup(j, n)] >>

\* the session fields of record r as the getters return them
ReadsOfSession(r) ==
    << Ok(PyStr(r.account_id)), Ok(PyStr(r.application_key_id)),
       Ok(PyStr(r.application_key)), Ok(PyStr(r.auth_token)), Ok(PyStr(r.api_url)),
       Ok(PyStr(r.download_url)), Ok(PyInt(r.minimum_part_size)), Ok(PyStr(r.realm)),
       Ok(r.allowed) >>

\* the calls that write
WriteOps ==
    { "_set_auth_data", "clear", "refresh_entire_bucket_name_cache", "save_bucket",
      "remove_bucket_name" }

\* C15: for two instances i and j of one prefix, once _set_auth_data(r) has
\* returned on i every session getter of j returns the field of r, once
\* refresh_entire_bucket_name_cache has returned on i the whole table and
\* every lookup of j are those of the entries i passed, and once any write
\* call has returned on i, j reads exactly what i itself reads.
C15_CrossInstance ==
    \A i \in Insts, j \in Insts :
        (i # j /\ PrefixOf(i) = PrefixOf(j) /\ ret.inst = i /\ ret.op \in WriteOps) =>
            LET theirs == Reads(j)
            IN  /\ ret.op = "_set_auth_data" =>
                       /\ session[PrefixOf(i)] \in AuthData
                       /\ SubSeq(theirs, 1, 9) = ReadsOfSession(session[PrefixOf(i)])
                /\ ret.op = "refresh_entire_bucket_name_cache" =>
                       /\ theirs[10] = Ok(PyDict(cache[PrefixOf(i)]))
                       /\ \A n \in LookupNames :
                              theirs[11][n] = Cached(cache[PrefixOf(i)], n)
                /\ theirs = Reads(i)

\* C15 witness: _set_auth_data of the second record has returned on A, and B
\* reads the fields of that record
C15_Witness ==
    /\ ret = [inst |-> "A", op |-> "_set_auth_data", res |-> Ok(None)]
    /\ get_realm("B") = Ok(PyStr(<<"d", "e", "v">>))
    /\ get_minimum_part_size("B") = Ok(PyInt(100000000))
    /\ get_account_id("B") = Ok(PyStr(<<"a", "c", "2">>))
    /\ SubSeq(Reads("B"), 1, 9) = ReadsOfSession(session[PrefixOf("A")])

\* C16 (as claimed): once an instance has written (its _set_auth_data has
\* returned), no step changes its key prefix.
C16_PrefixImmutable ==
    [][\A i \in Insts :
          (ret.inst = i /\ ret.op = "_set_auth_data") => key_prefix'[i] = key_prefix[i]]_vars

\* what the database holds under the session keys of instance i, and under
\* its cache table key
SessionStored(i) ==
    [k \in {PrefixOf(i) \o f : f \in SessionFields} \cap DOMAIN db |-> db[k]]

TableStored(i) == [k \in {TableKey(i)} \cap DOMAIN db |-> db[k]]

\* the nine session keys holding the fields of record r
SessionOf(i, r) ==
    LET items == AuthDataItems(i, r)
    IN  [k \in {items[n][1] : n \in 1..Len(items)} |->
            StringValue(items[CHOOSE n \in 1..Len(items) : items[n][1] = k][2])]

\* the cache table key holding exactly the entries, absent when there is none
TableOf(i, entries) ==
    [k \in (IF entries = <<>> THEN {} ELSE {TableKey(i)}) |-> HashValue(NewMap(entries))]

\* C17 (as claimed): a _set_auth_data, clear or refresh during which the
\* backend fails raises the failure, leaves no request pending, and leaves
\* the session fields and the cache table stored as they were before the call.
C17_FailureLeavesStoreUntouched ==
    [][\A i \in Insts :
          (\/ \E r \in AuthData, applied \in BOOLEAN :
                  _set_auth_data_backend_failure(i, r, applied)
           \/ \E applied \in BOOLEAN : clear_backend_failure(i, applied)
           \/ \E applied \in BOOLEAN : pipeline_execute_backend_failure(i, applied))
              => /\ ret'.res = BackendFailure
                 /\ pipeline'[i] = NoPipeline
                 /\ SessionStored(i)' = SessionStored(i)
                 /\ TableStored(i)' = TableStored(i)]_vars

\* C17 (amended): such a call raises the failure and leaves no request
\* pending; what is stored afterwards is either what was stored before the
\* call or what the completed call stores, whole: all nine fields of the
\* record, none of the ten keys, exactly the table of the entries.  What the
\* call does not write is as it was.
C17_FailureAllOrNothing ==
    [][\A i \in Insts :
          /\ \A r \in AuthData, applied \in BOOLEAN :
                 _set_auth_data_backend_failure(i, r, applied) =>
                     /\ ret'.res = BackendFailure
                     /\ pipeline'[i] = NoPipeline
                     /\ TableStored(i)' = TableStored(i)
                     /\ \/ SessionStored(i)' = SessionStored(i)
                        \/ SessionStored(i)' = SessionOf(i, r)
          /\ \A applied \in BOOLEAN :
                 clear_backend_failure(i, applied) =>
                     /\ ret'.res = BackendFailure
                     /\ pipeline'[i] = NoPipeline
                     /\ \/ /\ SessionStored(i)' = SessionStored(i)
                           /\ TableStored(i)' = TableStored(i)
                        \/ Owned(i) \cap DOMAIN db' = {}
          /\ \A applied \in BOOLEAN :
                 pipeline_execute_backend_failure(i, applied) =>
                     /\ ret'.res = BackendFailure
                     /\ pipeline'[i] = NoPipeline
                     /\ SessionStored(i)' = SessionStored(i)
                     /\ \/ TableStored(i)' = TableStored(i)
                        \/ TableStored(i)' = TableOf(i, pipeline[i].entries)]_vars

\* C17 witness: a refresh has raised the backend's failure while a session
\* and a cache table of two names are stored, and no request is pending on
\* the instance
C17_Witness ==
    /\ ret.op = "refresh_entire_bucket_name_cache"
    /\ ret.res = BackendFailure
    /\ Idle(ret.inst)
    /\ session[PrefixOf(ret.inst)] \in AuthData
    /\ SessionStored(ret.inst) = SessionOf(ret.inst, session[PrefixOf(ret.inst)])
    /\ DOMAIN TableStored(ret.inst) = {TableKey(ret.inst)}
    /\ DOMAIN db[TableKey(ret.inst)].val = BucketNames

\* C18: the step that completes a refresh_entire_bucket_name_cache(entries)
\* leaves under the cache table key exactly the table of those entries,
\* whether the refresh of another instance of the prefix is still waiting for
\* the server or has completed just before, and leaves the commands that the
\* other has queued as they are: after two concurrent calls the table is that
\* of the one the server ran last, never the union or a mix of the two, and
\* not empty unless that one's entries are.
C18_ConcurrentRefresh ==
    [][\A i \in Insts :
          pipeline_execute(i) =>
              /\ TableStored(i)' = TableOf(i, pipeline[i].entries)
              /\ \A j \in Insts \ {i} : pipeline'[j] = pipeline[j]]_vars

\* C18 witness: the refresh of B has returned while that of A, with other
\* entries, waits for the server; the table is exactly "docs" of B, and the
\* entries of A are the two ids of "pics" (one name, the later id wins)
C18_Witness ==
    /\ ret = [inst |-> "B", op |-> "refresh_entire_bucket_name_cache", res |-> Ok(None)]
    /\ ~Idle("A")
    /\ TableStored("B") = TableOf("B", <<<<"docs", "4_zd0c">>>>)
    /\ NewMap(pipeline["A"].entries) = ("pics" :> "4_z99x")
    /\ Len(pipeline["A"].entries) = 2

\* key prefixes of tenants of one database, among them prefixes that end
\* where a logical name begins or in the middle of one
TenantPrefixes ==
    { "", "b2sdk:", "b2sdk:a", "b2sdk:application-", "b2sdk:application-key-",
      "b2sdk:min-", "b2sdk:min-part-", "b2sdk:bucket-", "application-", "tenant2:" }

\* the physical keys of an adapter with prefix p
KeysUnder(p) == {p \o ALL_KEYS[n] : n \in 1..Len(ALL_KEYS)}

\* what the server answers an adapter with prefix p: the GET of each session
\* key and the HGETALL of the cache table, which its getters and lookups
\* return or convert
ReadsUnder(p) ==
    << [f \in SessionFields |-> _get_account_info_or_raise(p \o f)],
       redis_hgetall(db, p \o "bucket-map") >>

\* C19: the key sets of adapters with distinct prefixes are disjoint; no step
\* of an instance (each is a step of one of its calls, _set_auth_data, clear,
\* refresh_entire_bucket_name_cache, save_bucket and remove_bucket_name among
\* them) changes what an adapter with another prefix reads; under its own
\* prefix a step of a bucket cache call leaves the session fields stored as
\* they were and a step of _set_auth_data leaves the cache table as it was.
\* (A step that leaves the database and the prefixes as they are changes no
\* read.)
C19_PrefixIsolation ==
    /\ \A p \in TenantPrefixes, q \in TenantPrefixes :
           p # q => KeysUnder(p) \cap KeysUnder(q) = {}
    /\ [][\/ UNCHANGED <<db, key_prefix>>
           \/ /\ \A q \in Prefixes \ {PrefixOf(i) : i \in Insts} :
                     ReadsUnder(q)' = ReadsUnder(q)
              /\ \A i \in Insts :
                     /\ (ret'.inst = i
                             /\ ret'.op \in WriteOps \ {"_set_auth_data", "clear"})
                            => SessionStored(i)' = SessionStored(i)
                     /\ (ret'.inst = i /\ ret'.op = "_set_auth_data")
                            => TableStored(i)' = TableStored(i)]_vars

\* C19 witness: save_bucket has returned on an instance for "pics", the name
\* the other tenant caches too; the other tenant still reads its own id and
\* its own session, and the session of the instance is stored as written
C19_Witness ==
    /\ ret.op = "save_bucket"
    /\ Lookup(ret.inst, "pics") = Ok(PyStr("4_z27c"))
    /\ ReadsUnder(OtherPrefix)[2] = Ok(PyDict("pics" :> "4_z0th"))
    /\ ReadsUnder(OtherPrefix)[1]["account-id"] = Ok(PyStr(<<"a", "c", "9">>))
    /\ session[PrefixOf(ret.inst)] \in AuthData
    /\ SessionStored(ret.inst) = SessionOf(ret.inst, session[PrefixOf(ret.inst)])

====
